---------------------------- MODULE Spec2Model ----------------------------
(***************************************************************************)
(* Model of G4CMPPhononBoundaryProcess (library/src/                       *)
(* G4CMPPhononBoundaryProcess.cc): AbsorbTrack, DoReflection,              *)
(* GetReflectedVector, GetLambertianVector, GetEdgePosition and            *)
(* GetReflectionOnEdge.                                                    *)
(*                                                                         *)
(* Vectors are integer triples <<x, y, z>>.  Lengths are counted in        *)
(* micrometres, so um = 1 and mm = 1000.  Direction vectors keep the       *)
(* magnitude of the incident wavevector instead of being rescaled to 1:    *)
(* reflections and quarter-turn rotations preserve the magnitude, so       *)
(* unit()/setMag(1.) is a common positive factor that no test in the code  *)
(* depends on.  All wavevectors and normals lie in the plane z = 0 and the *)
(* facet normals are axis directions, which keeps every rotation exact.    *)
(*                                                                         *)
(* The lattice (PhononVelocityIsInward), the solid (SurfaceNormal,         *)
(* DistanceToIn), the surface property table, CheckStepBoundary, the       *)
(* uniform random source and LambertReflection are external to the file:   *)
(* their answers are inputs, drawn from small sets.                        *)
(***************************************************************************)
EXTENDS Integers, Sequences, FiniteSets, TLC

\* ------------------------------------------------------------------ bounds

\* Surface property values returned by the probability source: -1 .. MaxProb.
MaxProb == 1

\* G4UniformRand() returns n / RDen for n in 0 .. RDen-1.
RDen == 4

\* The facet edge (or bend) of the solid lies at most MaxEdge walk steps
\* from the collision point.
MaxEdge == 2

\* absMinK ranges over 0 .. MaxAbsMinK.
MaxAbsMinK == 2

\* ------------------------------------------------------- program constants

maxTries == 1000

maxAttempts == 1000

\* 1.*um, the walk step, in micrometres
stepSize == 1

\* 1.*mm in micrometres
mm == 1000

\* "surfAdjust > 1": 1 in Geant4 length units (mm), in micrometres
EdgeThreshold == 1000

\* ----------------------------------------------------------------- vectors

Zero == <<0, 0, 0>>

Dot(a, b) == a[1] * b[1] + a[2] * b[2] + a[3] * b[3]

Add(a, b) == <<a[1] + b[1], a[2] + b[2], a[3] + b[3]>>

Sub(a, b) == <<a[1] - b[1], a[2] - b[2], a[3] - b[3]>>

Scale(c, a) == <<c * a[1], c * a[2], c * a[3]>>

Cross(a, b) == <<a[2] * b[3] - a[3] * b[2],
                 a[3] * b[1] - a[1] * b[3],
                 a[1] * b[2] - a[2] * b[1]>>

Abs(x) == IF x < 0 THEN 0 - x ELSE x

Sgn(x) == IF x < 0 THEN 0 - 1 ELSE IF x > 0 THEN 1 ELSE 0

\* Hep3Vector::unit() of a vector along a coordinate axis (or of the zero
\* vector, which unit() returns unchanged).
Unit(v) == <<Sgn(v[1]), Sgn(v[2]), Sgn(v[3])>>

\* Rotation in the plane z = 0 by q quarter turns, counter-clockwise.
RotQ(v, q) ==
  LET r == q % 4
  IN  IF r = 0 THEN v
      ELSE IF r = 1 THEN <<0 - v[2], v[1], v[3]>>
      ELSE IF r = 2 THEN <<0 - v[1], 0 - v[2], v[3]>>
      ELSE <<v[2], 0 - v[1], v[3]>>

\* Hep3Vector::azimAngle(v2, ref) for in-plane axis vectors, in quarter
\* turns: the angle between v1 and v2, signed by ref . (v1 x v2) >= 0.
AzimAngle(v1, v2, ref) ==
  LET ang == IF Dot(v1, v2) > 0 THEN 0 ELSE IF Dot(v1, v2) = 0 THEN 1 ELSE 2
  IN  IF Dot(ref, Cross(v1, v2)) >= 0 THEN ang ELSE 0 - ang

\* Hep3Vector::rotate(axis, phi) about an axis along z; a zero axis leaves
\* the vector unchanged.
Rotate(v, axis, phi) ==
  IF axis = Zero THEN v ELSE RotQ(v, 4 + Sgn(axis[3]) * phi)

\* ----------------------------------------------------- G4double arithmetic

\* A G4double is a finite rational n/d (d > 0), an infinity or NaN.
Fin(n, d) == [k |-> "fin", n |-> n, d |-> d]

NaN == [k |-> "nan", n |-> 0, d |-> 1]

PInf == [k |-> "pinf", n |-> 0, d |-> 1]

NInf == [k |-> "ninf", n |-> 0, d |-> 1]

\* x / norm for integer-valued x and norm, IEEE semantics at norm = 0.
FDiv(x, norm) ==
  IF norm > 0 THEN Fin(x, norm)
  ELSE IF norm < 0 THEN Fin(0 - x, 0 - norm)
  ELSE IF x > 0 THEN PInf
  ELSE IF x < 0 THEN NInf
  ELSE NaN

FAdd(a, b) ==
  IF a.k = "nan" \/ b.k = "nan" THEN NaN
  ELSE IF a.k = "fin" /\ b.k = "fin" THEN Fin(a.n * b.d + b.n * a.d, a.d * b.d)
  ELSE IF a.k = "fin" THEN b
  ELSE IF b.k = "fin" THEN a
  ELSE IF a.k = b.k THEN a
  ELSE NaN

\* a < b; every comparison with NaN is false.
FLess(a, b) ==
  IF a.k = "nan" \/ b.k = "nan" THEN FALSE
  ELSE IF a.k = "fin" /\ b.k = "fin" THEN a.n * b.d < b.n * a.d
  ELSE IF a.k = "pinf" THEN FALSE
  ELSE IF b.k = "ninf" THEN FALSE
  ELSE a.k # b.k

\* ------------------------------------------------------------------ frames

\* A local frame is the global frame turned by rot quarter turns about z
\* and moved to org.
GetLocalPosition(frame, p) == RotQ(Sub(p, frame.org), 4 - frame.rot)

RotateToLocalDirection(frame, d) == RotQ(d, 4 - frame.rot)

GetGlobalDirection(frame, d) == RotQ(d, frame.rot)

RotateToGlobalPosition(frame, p) == Add(RotQ(p, frame.rot), frame.org)

Frames == {[rot |-> 0, org |-> Zero], [rot |-> 1, org |-> <<3, 0 - 2, 0>>]}

\* ------------------------------------------------------------------ inputs

\* G4PhononPolarization labels
Modes == {"L", "TS", "TF"}

\* the collision's outward surface normal, global frame
GlobalNormal == <<0, 1, 0>>

\* incident wavevectors, k . surfNorm >= 0
WaveVectors == {<<1, 1, 0>>, <<0 - 1, 1, 0>>, <<0, 1, 0>>}

\* values the surface property table may return
ProbVals == (0 - 1) .. MaxProb

\* directions G4CMP::LambertReflection(surfNorm) may return: into the
\* hemisphere opposite to surfNorm
LambertDirs(surfNorm) ==
  {Scale(0 - 1, surfNorm), Add(Scale(0 - 1, surfNorm), RotQ(surfNorm, 1))}

\* normals the solid may report at a bend or edge, given the current one
FacetNormals(norm) == {norm, RotQ(norm, 3)}

\* distances DistanceToIn may report along the inward normal: on the
\* surface, slightly off it, or no intersection within 1 mm (an edge)
NormalDists == {0, stepSize, 2 * mm}

\* distances DistanceToIn may report from the point stepped 1 mm inward
EdgeDists == {0, stepSize}

VARIABLES
  pc,          \* position of the call in progress
  in,          \* the track, step and material the framework passes in
  theLattice,  \* answers PhononVelocityIsInward has given so far
  dr,          \* locals of DoReflection
  pchg,        \* particleChange and the diagnostics emitted
  rv,          \* locals of GetReflectedVector
  lv,          \* locals of GetLambertianVector
  ab           \* AbsorbTrack's reads and result

vars == <<pc, in, theLattice, dr, pchg, rv, lv, ab>>

\* ----------------------------------------------------------- lattice oracle

\* PhononVelocityIsInward(theLattice, mode, k, surfNorm) is a pure function
\* of its arguments.  An "iso" lattice has its group velocity along k, an
\* "opaque" one never reports inward, and for "any" lattice each answer is
\* chosen when first asked and then kept.
InwardAnswers(k, n) ==
  IF in.lattice = "iso" THEN {Dot(k, n) < 0}
  ELSE IF in.lattice = "opaque" THEN {FALSE}
  ELSE IF <<k, n, TRUE>> \in theLattice THEN {TRUE}
  ELSE IF <<k, n, FALSE>> \in theLattice THEN {FALSE}
  ELSE BOOLEAN

Learn(k, n, b) ==
  IF in.lattice = "any" THEN theLattice \cup {<<k, n, b>>} ELSE theLattice

\* The answer the lattice gives (or would give, if it has not been asked:
\* then FALSE stands for "not known to be inward").
KnownInward(k, n) ==
  IF in.lattice = "iso" THEN Dot(k, n) < 0
  ELSE IF in.lattice = "opaque" THEN FALSE
  ELSE <<k, n, TRUE>> \in theLattice

KnownNotInward(k, n) ==
  IF in.lattice = "iso" THEN ~(Dot(k, n) < 0)
  ELSE IF in.lattice = "opaque" THEN TRUE
  ELSE <<k, n, FALSE>> \in theLattice

\* ---------------------------------------------------------------- initial

NoVec == <<0, 0, 9>>

dr0 ==
  [specProb |-> NaN, diffuseProb |-> NaN, downconversionProb |-> NaN,
   norm |-> 0, random |-> Fin(0, 1), drawn |-> FALSE,
   refltype |-> "", branch |-> "none",
   reflectedKDir |-> NoVec, surfacePoint |-> NoVec,
   vec1 |-> NoVec, vec2 |-> NoVec]

pchg0 ==
  [position |-> NoVec, waveVector |-> NoVec, trackStatus |-> "fAlive",
   secondaries |-> <<>>, warning |-> <<>>]

rv0 ==
  [reflectedKDir |-> NoVec, newNorm |-> NoVec, oldNorm |-> NoVec,
   stepLocalPos |-> NoVec, kPerpMag |-> 0, kPerpV |-> NoVec, kTan |-> NoVec,
   axis |-> NoVec, phi |-> 0, surfAdjust |-> 0, nAttempts |-> 0,
   nBody |-> 0, step1 |-> FALSE, exit |-> "none",
   edge |-> FALSE, edgePos |-> NoVec, edgeDir |-> NoVec,
   retDir |-> NoVec, retPos |-> NoVec]

lv0 ==
  [reflectedKDir |-> NoVec, nTries |-> 0, nDraws |-> 0, caller |-> "none",
   exit |-> "none"]

ab0 == [called |-> FALSE, absMinK |-> 0, base |-> FALSE, result |-> FALSE]

Input(k, mode, frame, stepOK, props, rnd, edgeAt, lattice) ==
  [waveVector |-> k, mode |-> mode, surfNorm |-> GlobalNormal,
   postStepPoint |-> <<7, 5, 0>>, frame |-> frame, stepOnBoundary |-> stepOK,
   boundaryPoint |-> IF stepOK THEN <<7, 5, 0>> ELSE <<7, 4, 0>>,
   props |-> props, rnd |-> rnd, edgeAt |-> edgeAt, lattice |-> lattice]

\* Specular collisions on every solid, frame and lattice.
InitSolver ==
  in \in {Input(k, "L", f, b, <<1, 0, 0>>, 0, e, "any") :
            k \in WaveVectors, f \in Frames, b \in BOOLEAN,
            e \in 0 .. MaxEdge}

\* Diffuse and decay collisions for every mode and lattice.
InitSampler ==
  in \in {Input(<<1, 1, 0>>, m, [rot |-> 0, org |-> Zero], TRUE, p, 0, 0, "any") :
            m \in Modes, p \in {<<0, 1, 0>>, <<0, 0, 1>>}}

\* Every surface property triple and random draw, on a flat solid.
InitSelect ==
  in \in {Input(<<1, 1, 0>>, "TS", [rot |-> 0, org |-> Zero], TRUE, p, r, 0, l) :
            p \in ProbVals \X ProbVals \X ProbVals,
            r \in 0 .. (RDen - 1), l \in {"iso", "opaque"}}

Init ==
  /\ pc = "idle"
  /\ InitSolver \/ InitSampler \/ InitSelect
  /\ theLattice = {}
  /\ dr = dr0
  /\ pchg = pchg0
  /\ rv = rv0
  /\ lv = lv0
  /\ ab = ab0

\* -------------------------------------------------------------- AbsorbTrack

\* AbsorbDecision with >= written for >
AbsorbDecisionAtLeast(base, k, surfNorm, absMinK) ==
  base /\ Abs(Dot(k, surfNorm)) >= absMinK

\* G4CMPBoundaryUtils::AbsorbTrack(aTrack,aStep) &&
\*   fabs(k*G4CMP::GetSurfaceNormal(aStep)) > absMinK
AbsorbDecision(base, k, surfNorm, absMinK) ==
  base /\ Abs(Dot(k, surfNorm)) > absMinK

\* AbsorbTrack: absMinK is the material property read, base the answer of
\* G4CMPBoundaryUtils::AbsorbTrack.
AbsorbTrack ==
  /\ pc = "idle"
  /\ \E a \in 0 .. MaxAbsMinK, b \in BOOLEAN :
       ab' = [called |-> TRUE, absMinK |-> a, base |-> b,
              result |-> AbsorbDecision(b, in.waveVector, in.surfNorm, a)]
  /\ pc' = "absorbReturned"
  /\ UNCHANGED <<in, theLattice, dr, pchg, rv, lv>>

\* ------------------------------------------------------------- DoReflection

\* SelectOutcome with <= written for < in the decay test
SelectOutcomeInclusive(random, downconversionProb, specProb) ==
  IF ~FLess(downconversionProb, random) THEN "decay"
  ELSE IF FLess(random, FAdd(downconversionProb, specProb)) THEN "specular"
  ELSE "diffuse"

\* if (random < downconversionProb) ... else if (random <
\* downconversionProb + specProb) ... else ...
SelectOutcome(random, downconversionProb, specProb) ==
  IF FLess(random, downconversionProb) THEN "decay"
  ELSE IF FLess(random, FAdd(downconversionProb, specProb)) THEN "specular"
  ELSE "diffuse"

\* ReflectionFailed with the final inward check left out
ReflectionFailedNever(inward) == FALSE

\* if (!G4CMP::PhononVelocityIsInward(theLattice,mode,reflectedKDir,surfNorm))
ReflectionFailed(inward) == ~inward

\* DoReflection from its entry to the call of the branch it selects.
\* CheckStepBoundary reports in.boundaryPoint; the position is proposed only
\* when the step did not stop on the boundary.  In the decay branch
\* anharmonicDecay->DoDecay leaves two secondaries in the particle change;
\* what else it does to the parent track is not part of this file.
DoReflection ==
  /\ pc = "idle"
  /\ LET norm == in.props[1] + in.props[2] + in.props[3]
         specProb == FDiv(in.props[1], norm)
         diffuseProb == FDiv(in.props[2], norm)
         downconversionProb == FDiv(in.props[3], norm)
         random == Fin(in.rnd, RDen)
         branch == SelectOutcome(random, downconversionProb, specProb)
     IN  /\ dr' = [dr EXCEPT !.surfacePoint = in.boundaryPoint,
                             !.norm = norm,
                             !.specProb = specProb,
                             !.diffuseProb = diffuseProb,
                             !.downconversionProb = downconversionProb,
                             !.random = random,
                             !.drawn = TRUE,
                             !.branch = branch]
         /\ pchg' = [pchg EXCEPT
                       !.position = IF in.stepOnBoundary THEN @
                                    ELSE in.boundaryPoint,
                       !.secondaries =
                          IF branch = "decay"
                          THEN <<[dir |-> NoVec, status |-> "fAlive"],
                                 [dir |-> NoVec, status |-> "fAlive"]>>
                          ELSE @]
         /\ pc' = IF branch = "specular" THEN "specular" ELSE "lambert"
         /\ lv' = IF branch = "decay" THEN [lv0 EXCEPT !.caller = "vec1"]
                  ELSE IF branch = "diffuse" THEN [lv0 EXCEPT !.caller = "diffuse"]
                  ELSE lv
  /\ UNCHANGED <<in, theLattice, rv, ab>>

\* The decay branch after each GetLambertianVector returns.
DoReflectionDecay ==
  /\ pc = "lambertRet"
  /\ lv.caller \in {"vec1", "vec2"}
  /\ IF lv.caller = "vec1"
     THEN /\ dr' = [dr EXCEPT !.vec1 = lv.reflectedKDir]
          /\ lv' = [lv0 EXCEPT !.caller = "vec2"]
          /\ pc' = "lambert"
          /\ UNCHANGED pchg
     ELSE /\ dr' = [dr EXCEPT !.vec2 = lv.reflectedKDir]
          /\ pchg' = [pchg EXCEPT
                        !.secondaries =
                           <<[@[1] EXCEPT !.dir = dr.vec1],
                             [@[2] EXCEPT !.dir = lv.reflectedKDir]>>]
          /\ pc' = "done"
          /\ UNCHANGED lv
  /\ UNCHANGED <<in, theLattice, rv, ab>>

\* The specular and diffuse branches after the direction is returned:
\* FillParticleChange, then the inward check, the warning and the kill.
DoReflectionFinish ==
  /\ pc \in {"solverRet", "lambertRet"}
  /\ pc = "lambertRet" => lv.caller = "diffuse"
  /\ LET reflectedKDir == IF pc = "solverRet" THEN rv.retDir
                          ELSE lv.reflectedKDir
         refltype == IF pc = "solverRet" THEN "specular" ELSE "diffuse"
     IN  \E b \in InwardAnswers(reflectedKDir, in.surfNorm) :
           /\ theLattice' = Learn(reflectedKDir, in.surfNorm, b)
           /\ dr' = [dr EXCEPT !.reflectedKDir = reflectedKDir,
                               !.refltype = refltype]
           /\ pchg' = [pchg EXCEPT
                         !.waveVector = reflectedKDir,
                         !.warning = IF ReflectionFailed(b)
                                     THEN <<refltype, in.mode>> ELSE @,
                         !.trackStatus = IF ReflectionFailed(b)
                                         THEN "fStopAndKill" ELSE @]
  /\ pc' = "done"
  /\ UNCHANGED <<in, rv, lv, ab>>

\* ------------------------------------------------------ GetLambertianVector

\* while (nTries++ < maxTries && !PhononVelocityIsInward(...))
LambertContinues(nTries, inward) == nTries < maxTries /\ ~inward

\* One pass of the do-while loop: a draw, then the loop condition.  The
\* lattice is asked only when nTries < maxTries.
GetLambertianVector ==
  /\ pc = "lambert"
  /\ \E d \in LambertDirs(in.surfNorm) :
       LET asked == lv.nTries < maxTries
       IN  \E b \in (IF asked THEN InwardAnswers(d, in.surfNorm) ELSE {FALSE}) :
             /\ theLattice' = IF asked THEN Learn(d, in.surfNorm, b)
                              ELSE theLattice
             /\ lv' = [lv EXCEPT
                         !.reflectedKDir = d,
                         !.nTries = @ + 1,
                         !.nDraws = @ + 1,
                         !.exit = IF LambertContinues(lv.nTries, b) THEN "none"
                                  ELSE IF asked /\ b THEN "accepted"
                                  ELSE "exhausted"]
             /\ pc' = IF LambertContinues(lv.nTries, b) THEN "lambert"
                      ELSE "lambertRet"
  /\ UNCHANGED <<in, dr, pchg, rv, ab>>

\* ------------------------------------------------------- the edge corrector

\* GetEdgePosition.  currNorm is solid->SurfaceNormal(stepLocalPos),
\* surfAdjust is solid->DistanceToIn(edgePos, -kTan).  The function computes
\* a local kPerp but subtracts kPerpV, a name it does not declare: kPerpV is
\* whatever that name resolves to in the build.
GetEdgePosition(stepLocalPos, waveVector, currNorm, kPerpV, surfAdjust) ==
  LET kTan == Sub(waveVector, kPerpV)
      edgePos0 == Sub(stepLocalPos, Scale(mm, currNorm))
      edgePos1 == Sub(edgePos0, Scale(surfAdjust, kTan))
  IN  Add(edgePos1, Scale(mm, currNorm))

\* GetReflectionOnEdge.  newNorm is solid->SurfaceNormal(edgePos), the
\* bordering surface's normal, with edgePos 1 mm inside of stepLocalPos.
GetReflectionOnEdge(stepLocalPos, waveVector, newNorm) ==
  LET kPerp == Dot(waveVector, newNorm)
  IN  Sub(waveVector, Scale(2 * kPerp, newNorm))

\* values the undeclared kPerpV of GetEdgePosition may have there: a
\* default-constructed vector, or the perpendicular part it computes
EdgeKPerpV(waveVector, currNorm) ==
  {Zero, Scale(Dot(waveVector, currNorm), currNorm)}

\* ------------------------------------------------------- GetReflectedVector

\* WalkContinues with <= written for <
WalkContinuesInclusive(inward, nAttempts) ==
  ~inward /\ nAttempts <= maxAttempts

\* while (!PhononVelocityIsInward(...) && nAttempts++ < maxAttempts)
WalkContinues(inward, nAttempts) == ~inward /\ nAttempts < maxAttempts

\* GetReflectedVector from its entry to the first test of the loop
\* condition: the law of reflection, the early return, and the set-up of
\* the walk in the local frame.  The first surfAdjust (the collision point
\* lies on the surface) is overwritten in the loop before it is read.
GetReflectedVectorStep1 ==
  /\ pc = "specular"
  /\ LET kPerp == Dot(in.waveVector, in.surfNorm)
         reflectedKDir == Sub(in.waveVector, Scale(2 * kPerp, in.surfNorm))
     IN  \E b \in InwardAnswers(reflectedKDir, in.surfNorm) :
           /\ theLattice' = Learn(reflectedKDir, in.surfNorm, b)
           /\ IF b
              THEN /\ rv' = [rv0 EXCEPT !.step1 = TRUE, !.exit = "step1",
                                        !.retDir = reflectedKDir]
                   /\ pc' = "solverRet"
              ELSE LET local == RotateToLocalDirection(in.frame, reflectedKDir)
                       newNorm == RotateToLocalDirection(in.frame, in.surfNorm)
                       kPerpMag == Dot(local, newNorm)
                       kPerpV == Scale(kPerpMag, newNorm)
                       kTan == Sub(local, kPerpV)
                   IN  /\ rv' = [rv0 EXCEPT
                                   !.reflectedKDir = local,
                                   !.newNorm = newNorm,
                                   !.oldNorm = newNorm,
                                   !.stepLocalPos =
                                      GetLocalPosition(in.frame, dr.surfacePoint),
                                   !.kPerpMag = kPerpMag,
                                   !.kPerpV = kPerpV,
                                   !.kTan = kTan,
                                   !.axis = Unit(Cross(kPerpV, kTan))]
                       /\ pc' = "walk"
  /\ UNCHANGED <<in, dr, pchg, lv, ab>>

\* The state of the walk after one execution of the loop body.  newNorm and
\* surfAdjust are the solid's answers at the stepped position; epos and edir
\* are the edge corrector's outputs, used when surfAdjust > 1.
WalkBody(newNorm, surfAdjust, epos, edir) ==
  LET stepped == Add(rv.stepLocalPos, Scale(stepSize, Unit(rv.kTan)))
      edge == surfAdjust > EdgeThreshold
      stepLocalPos == IF edge THEN epos
                      ELSE Sub(stepped, Scale(surfAdjust, newNorm))
      oldNorm == rv.newNorm
      axis == Unit(Cross(rv.kPerpV, rv.kTan))
      kPerpV == Scale(rv.kPerpMag, newNorm)
      phi == AzimAngle(oldNorm, newNorm, axis)
      kTan == Rotate(rv.kTan, axis, phi)
  IN  [rv EXCEPT !.stepLocalPos = stepLocalPos,
                 !.oldNorm = oldNorm,
                 !.newNorm = newNorm,
                 !.surfAdjust = surfAdjust,
                 !.axis = axis,
                 !.kPerpV = kPerpV,
                 !.phi = phi,
                 !.kTan = kTan,
                 !.reflectedKDir = Add(kTan, kPerpV),
                 !.nAttempts = @ + 1,
                 !.nBody = @ + 1,
                 !.edge = edge,
                 !.edgePos = IF edge THEN epos ELSE NoVec,
                 !.edgeDir = IF edge THEN edir ELSE NoVec]

\* One test of the loop condition and, when it holds, one execution of the
\* body; otherwise the conversion to the global frame and the return.  The
\* solid is flat except at walk step in.edgeAt, where it may answer anything.
GetReflectedVectorWalk ==
  /\ pc = "walk"
  /\ LET k == GetGlobalDirection(in.frame, rv.reflectedKDir)
         n == GetGlobalDirection(in.frame, rv.newNorm)
         bend == rv.nAttempts + 1 = in.edgeAt
         stepped == Add(rv.stepLocalPos, Scale(stepSize, Unit(rv.kTan)))
     IN  \E b \in InwardAnswers(k, n) :
           /\ theLattice' = Learn(k, n, b)
           /\ IF WalkContinues(b, rv.nAttempts)
              THEN /\ \E newNorm \in (IF bend THEN FacetNormals(rv.newNorm)
                                      ELSE {rv.newNorm}),
                         surfAdjust \in (IF bend THEN NormalDists ELSE {0}) :
                        IF surfAdjust > EdgeThreshold
                        THEN \E d \in EdgeDists,
                                kp \in EdgeKPerpV(rv.reflectedKDir, newNorm),
                                nb \in FacetNormals(newNorm) :
                               LET epos == GetEdgePosition(stepped,
                                             rv.reflectedKDir, newNorm, kp, d)
                                   edir == GetReflectionOnEdge(epos,
                                             rv.reflectedKDir, nb)
                               IN  rv' = WalkBody(newNorm, surfAdjust, epos, edir)
                        ELSE rv' = WalkBody(newNorm, surfAdjust, NoVec, NoVec)
                   /\ pc' = "walk"
              ELSE /\ rv' = [rv EXCEPT
                               !.nAttempts = IF b THEN @ ELSE @ + 1,
                               !.edge = FALSE,
                               !.edgePos = NoVec,
                               !.edgeDir = NoVec,
                               !.exit = IF b THEN "converged" ELSE "exhausted",
                               !.retDir = k,
                               !.retPos = RotateToGlobalPosition(in.frame,
                                                                 rv.stepLocalPos)]
                   /\ pc' = "solverRet"
  /\ UNCHANGED <<in, dr, pchg, lv, ab>>

\* ------------------------------------------------------------ specification

Next ==
  \/ AbsorbTrack
  \/ DoReflection
  \/ DoReflectionDecay
  \/ DoReflectionFinish
  \/ GetLambertianVector
  \/ GetReflectedVectorStep1
  \/ GetReflectedVectorWalk

Spec == Init /\ [][Next]_vars

\* ------------------------------------------------------------------- claims

SumOfProps == in.props[1] + in.props[2] + in.props[3]

\* C1: in the specular and diffuse branches a candidate direction that the
\* lattice reports not inward against the collision's global surface normal
\* gets the track killed, with a warning naming the reflection type and the
\* mode; a track that survives has an inward wavevector in the particle
\* change.
C1_NotInwardIsKilled ==
  (pc = "done" /\ dr.branch \in {"specular", "diffuse"}) =>
     /\ KnownNotInward(dr.reflectedKDir, in.surfNorm) =>
          /\ pchg.trackStatus = "fStopAndKill"
          /\ pchg.warning = <<dr.branch, in.mode>>
     /\ pchg.trackStatus # "fStopAndKill" =>
          /\ KnownInward(pchg.waveVector, in.surfNorm)
          /\ pchg.warning = <<>>

C1_Witness ==
  /\ pc = "done"
  /\ dr.branch = "diffuse"
  /\ KnownNotInward(dr.reflectedKDir, in.surfNorm)
  /\ pchg.trackStatus = "fStopAndKill"

\* C2: when the sum of the three surface probabilities is <= 0 the call
\* fails fast: no random number is drawn, no branch is selected and the
\* particle change is not filled.
C2_FailFastOnBadSum ==
  SumOfProps <= 0 =>
     /\ ~dr.drawn
     /\ dr.branch = "none"
     /\ pchg.waveVector = NoVec

\* C3: for a positive sum and a draw r in [0,1) exactly one outcome is
\* selected: decay iff r < decayProb, specular iff decayProb <= r <
\* decayProb + specularProb, diffuse otherwise (stated on the un-normalised
\* values, multiplied out).
C3_Bands ==
  (dr.drawn /\ SumOfProps > 0) =>
     LET r == in.rnd * SumOfProps
         lo == in.props[3] * RDen
         hi == (in.props[3] + in.props[1]) * RDen
     IN  /\ dr.branch \in {"decay", "specular", "diffuse"}
         /\ dr.branch = "decay" <=> r < lo
         /\ dr.branch = "specular" <=> (lo <= r /\ r < hi)
         /\ dr.branch = "diffuse" <=> (lo <= r /\ hi <= r)
         /\ pc = "specular" => dr.branch = "specular"
         /\ pc = "solverRet" => dr.branch = "specular"
         /\ pc \in {"lambert", "lambertRet"} =>
              lv.caller = (IF dr.branch = "diffuse" THEN "diffuse"
                           ELSE IF dr.vec1 = NoVec THEN "vec1" ELSE "vec2")
         /\ pc \in {"lambert", "lambertRet"} => dr.branch # "specular"

C3_Witness ==
  /\ dr.drawn
  /\ SumOfProps > 0
  /\ in.props[3] > 0
  /\ in.rnd * SumOfProps = in.props[3] * RDen
  /\ dr.branch = "specular"
  /\ pc = "done"

\* C4: in the decay branch a daughter whose assigned direction is not
\* inward is terminated, never left alive with that direction.
C4_DaughterNotInwardIsKilled ==
  (pc = "done" /\ dr.branch = "decay") =>
     \A i \in 1 .. Len(pchg.secondaries) :
        KnownNotInward(pchg.secondaries[i].dir, in.surfNorm) =>
           pchg.secondaries[i].status = "fStopAndKill"

\* C5: one call of GetLambertianVector makes at most 1000 draws.
C5_AtMostMaxTriesDraws == lv.nDraws <= maxTries

\* the candidate the loop condition of the walk tests, and the normal it
\* tests it against, in the global frame
WalkCandidate == GetGlobalDirection(in.frame, rv.reflectedKDir)

WalkNormal == GetGlobalDirection(in.frame, rv.newNorm)

InwardAfterStep(k, n) ==
  IF in.lattice = "iso" THEN Dot(k, n) < 0
  ELSE IF in.lattice = "opaque" THEN FALSE
  ELSE <<k, n, TRUE>> \in theLattice'

\* C6: the body of the correction loop runs at most 1000 times in a call;
\* every pass through the loop either leaves it or is one more of those at
\* most 1000 executions, so the loop ends; it is left, with no further
\* execution of the body, as soon as the candidate is reported inward; and
\* it is not entered when the Step-1 reflection is inward.
C6_WalkBounded ==
  /\ [](rv.nBody <= maxAttempts)
  /\ [](rv.step1 => (rv.nBody = 0 /\ pc \in {"solverRet", "done"}))
  /\ [][pc = "walk" =>
          /\ pc' \in {"walk", "solverRet"}
          /\ pc' = "walk" => rv'.nBody = rv.nBody + 1
          /\ pc' = "solverRet" => rv'.nBody = rv.nBody
          /\ InwardAfterStep(WalkCandidate, WalkNormal) =>
               (pc' = "solverRet" /\ rv'.retDir = WalkCandidate)]_vars

C6_Witness ==
  /\ pc = "solverRet"
  /\ rv.exit = "exhausted"
  /\ rv.nBody = maxAttempts

\* C7: when the correction loop gives up after its 1000 attempts, with the
\* last candidate still not inward against the walked normal, DoReflection
\* kills the track with the "specular reflection failed" warning.
C7_ExhaustedIsKilled ==
  (pc = "done" /\ dr.branch = "specular" /\ rv.exit = "exhausted") =>
     /\ pchg.trackStatus = "fStopAndKill"
     /\ pchg.warning = <<"specular", in.mode>>

\* C8: the solver hands a collision point back with the direction: the
\* original point when Step 1 succeeds, and the walked point, in the global
\* frame, when the loop converges; that is the position DoReflection applies
\* to the track.
C8_WalkedPointApplied ==
  (pc = "done" /\ dr.branch = "specular") =>
     /\ rv.exit = "step1" => dr.surfacePoint = in.boundaryPoint
     /\ (rv.exit = "converged" /\ pchg.trackStatus = "fAlive") =>
          /\ dr.surfacePoint = rv.retPos
          /\ pchg.position = rv.retPos

\* C9 as stated: AbsorbTrack returns true iff |k . n| > absMinK, and nothing
\* else affects the decision.
C9_ThresholdOnly ==
  ab.called =>
     (ab.result <=> Abs(Dot(in.waveVector, in.surfNorm)) > ab.absMinK)

\* C9, amended: AbsorbTrack returns true iff G4CMPBoundaryUtils::AbsorbTrack
\* returns true and |k . n| is strictly greater than absMinK.
C9_BaseAndThreshold ==
  ab.called =>
     /\ ab.result => (ab.base /\ ab.absMinK < Abs(Dot(in.waveVector, in.surfNorm)))
     /\ ~ab.result => (~ab.base \/ Abs(Dot(in.waveVector, in.surfNorm)) <= ab.absMinK)

C9_Witness ==
  /\ ab.called
  /\ ab.base
  /\ ~ab.result
  /\ Abs(Dot(in.waveVector, in.surfNorm)) = ab.absMinK

\* C10: after a pass of the loop body that crossed an edge, the position is
\* the one GetEdgePosition returned and the candidate direction that the
\* next test of the loop condition sees is the one GetReflectionOnEdge
\* returned.
C10_EdgeOutputsAreLoopState ==
  (pc = "walk" /\ rv.edge) =>
     /\ rv.stepLocalPos = rv.edgePos
     /\ rv.reflectedKDir = rv.edgeDir

=============================================================================
